---- MODULE Spec2Model ----
(***************************************************************************)
(* Schema-driven runtime validation as exercised by the repository:        *)
(* the schemas the sources declare, the validator compiled from them, the  *)
(* validateUser / createUser wrappers, and the two jest suites that drive  *)
(* them.  JSON values are tagged records, schemas are tagged records, a    *)
(* violation is [path, kind, message].                                     *)
(***************************************************************************)
EXTENDS Integers, Sequences, FiniteSets, TLC

VARIABLES suite, data, edits, call, held

vars == <<suite, data, edits, call, held>>

(***************************************************************************)
(* Bounds                                                                  *)
(***************************************************************************)
\* number of spread-style modifications applied to a fixture before it is validated
MaxEdits == 2

(***************************************************************************)
(* JSON values                                                             *)
(***************************************************************************)
Str(s)  == [kind |-> "string", str |-> s]
Num(n)  == [kind |-> "number", num |-> n]
Bool(b) == [kind |-> "boolean", bool |-> b]
Null    == [kind |-> "null"]
Arr(xs) == [kind |-> "array", items |-> xs]
Obj(ps) == [kind |-> "object", props |-> ps]

Has(value, key) == key \in DOMAIN value.props

\* { ...value, key: v }
With(value, key, v) ==
  Obj([k \in (DOMAIN value.props) \cup {key} |-> IF k = key THEN v ELSE value.props[k]])

\* the object without the key (a literal that leaves the field out)
Without(value, key) ==
  Obj([k \in (DOMAIN value.props) \ {key} |-> value.props[k]])

(***************************************************************************)
(* Schema Model: construction API                                          *)
(***************************************************************************)
Type_String  == [type |-> "String"]
Type_StringOpts(opts) == [type |-> "String"] @@ opts
Type_Number  == [type |-> "Number"]
Type_NumberOpts(opts) == [type |-> "Number"] @@ opts
Type_Boolean == [type |-> "Boolean"]
Type_Null    == [type |-> "Null"]
Type_Literal(v) == [type |-> "Literal", value |-> v]
Type_Array(element) == [type |-> "Array", elementSchema |-> element]
Type_Union(alts) == [type |-> "Union", alternatives |-> alts]
Type_Optional(schema) == schema @@ [optional |-> TRUE]

IsOptional(schema) == "optional" \in DOMAIN schema

\* props is the declaration-ordered sequence of <<name, schema>>
Type_ObjectOpts(props, strictMode) ==
  [type   |-> "Object",
   fields |-> [i \in 1..Len(props) |->
                 [name |-> props[i][1], schema |-> props[i][2],
                  required |-> ~IsOptional(props[i][2])]],
   strict |-> strictMode]

Type_Object(props) == Type_ObjectOpts(props, FALSE)

(***************************************************************************)
(* Error Reporter: canonical message per violation kind, path rendering    *)
(***************************************************************************)
KindName(schema) ==
  CASE schema.type = "String"  -> "string"
    [] schema.type = "Number"  -> "number"
    [] schema.type = "Boolean" -> "boolean"
    [] schema.type = "Null"    -> "null"
    [] schema.type = "Array"   -> "array"
    [] schema.type = "Object"  -> "object"
    [] OTHER -> "value"

Message(kind, detail) ==
  CASE kind = "TypeMismatch"         -> "Expected " \o detail
    [] kind = "LiteralMismatch"      -> "Expected literal value"
    [] kind = "MissingRequired"      -> "Expected required property"
    [] kind = "UnexpectedProperty"   -> "Unexpected property"
    [] kind = "BelowMinimum"         -> "Expected number to be greater or equal to " \o detail
    [] kind = "AboveMaximum"         -> "Expected number to be less or equal to " \o detail
    [] kind = "LengthTooShort"       -> "Expected string length greater or equal to " \o detail
    [] kind = "LengthTooLong"        -> "Expected string length less or equal to " \o detail
    [] kind = "FormatInvalid"        -> "Expected string to match '" \o detail \o "' format"
    [] kind = "NoAlternativeMatched" -> "Expected union value"

Violation(path, kind, detail) ==
  [path |-> path, kind |-> kind, message |-> Message(kind, detail)]

Field(name) == [field |-> name]
Index(i)    == [index |-> i]

Segment(seg) ==
  IF "field" \in DOMAIN seg THEN "/" \o seg.field ELSE "/" \o ToString(seg.index)

RECURSIVE JoinPath(_)
JoinPath(path) ==
  IF path = <<>> THEN "" ELSE Segment(Head(path)) \o JoinPath(Tail(path))

(***************************************************************************)
(* Constraint Evaluator                                                    *)
(***************************************************************************)
\* strings the 'email' format accepts, among the strings the suites use
EmailStrings == {"john@example.com", "jane.doe+tag@example.org"}

FormatOk(format, s) ==
  IF format = "email" THEN s \in EmailStrings ELSE TRUE

StringRefinements(schema, s, path) ==
  (IF "minLength" \in DOMAIN schema /\ Len(s) < schema.minLength
     THEN <<Violation(path, "LengthTooShort", ToString(schema.minLength))>> ELSE <<>>)
  \o
  (IF "maxLength" \in DOMAIN schema /\ Len(s) > schema.maxLength
     THEN <<Violation(path, "LengthTooLong", ToString(schema.maxLength))>> ELSE <<>>)
  \o
  (IF "format" \in DOMAIN schema /\ ~FormatOk(schema.format, s)
     THEN <<Violation(path, "FormatInvalid", schema.format)>> ELSE <<>>)

NumberRefinements(schema, n, path) ==
  (IF "minimum" \in DOMAIN schema /\ n < schema.minimum
     THEN <<Violation(path, "BelowMinimum", ToString(schema.minimum))>> ELSE <<>>)
  \o
  (IF "maximum" \in DOMAIN schema /\ n > schema.maximum
     THEN <<Violation(path, "AboveMaximum", ToString(schema.maximum))>> ELSE <<>>)

RECURSIVE SetToSeq(_)
SetToSeq(S) ==
  IF S = {} THEN <<>>
  ELSE LET x == CHOOSE y \in S : TRUE IN <<x>> \o SetToSeq(S \ {x})

DeclaredNames(schema) == {schema.fields[i].name : i \in 1..Len(schema.fields)}

UnexpectedProperties(schema, value, path) ==
  IF schema.strict
    THEN LET extra == SetToSeq((DOMAIN value.props) \ DeclaredNames(schema))
         IN  [i \in 1..Len(extra) |->
                Violation(Append(path, Field(extra[i])), "UnexpectedProperty", "")]
    ELSE <<>>

RECURSIVE Evaluate(_, _, _)
RECURSIVE EvaluateItems(_, _, _, _)
RECURSIVE EvaluateFields(_, _, _, _)

Evaluate(schema, value, path) ==
  CASE schema.type = "String" ->
         IF value.kind # "string"
           THEN <<Violation(path, "TypeMismatch", KindName(schema))>>
           ELSE StringRefinements(schema, value.str, path)
    [] schema.type = "Number" ->
         IF value.kind # "number"
           THEN <<Violation(path, "TypeMismatch", KindName(schema))>>
           ELSE NumberRefinements(schema, value.num, path)
    [] schema.type \in {"Boolean", "Null"} ->
         IF value.kind # KindName(schema)
           THEN <<Violation(path, "TypeMismatch", KindName(schema))>>
           ELSE <<>>
    [] schema.type = "Literal" ->
         IF value = schema.value THEN <<>>
           ELSE <<Violation(path, "LiteralMismatch", "")>>
    [] schema.type = "Array" ->
         IF value.kind # "array"
           THEN <<Violation(path, "TypeMismatch", KindName(schema))>>
           ELSE EvaluateItems(schema.elementSchema, value.items, path, 1)
    [] schema.type = "Object" ->
         IF value.kind # "object"
           THEN <<Violation(path, "TypeMismatch", KindName(schema))>>
           ELSE EvaluateFields(schema.fields, value, path, 1)
                  \o UnexpectedProperties(schema, value, path)
    [] schema.type = "Union" ->
         IF \E i \in 1..Len(schema.alternatives) :
               Evaluate(schema.alternatives[i], value, path) = <<>>
           THEN <<>>
           ELSE <<Violation(path, "NoAlternativeMatched", "")>>

\* element i (1-based here) is addressed by the index i - 1
EvaluateItems(element, items, path, i) ==
  IF i > Len(items) THEN <<>>
  ELSE Evaluate(element, items[i], Append(path, Index(i - 1)))
         \o EvaluateItems(element, items, path, i + 1)

EvaluateFields(fields, value, path, i) ==
  IF i > Len(fields) THEN <<>>
  ELSE LET f == fields[i]
           here == Append(path, Field(f.name))
       IN  (IF Has(value, f.name)
              THEN Evaluate(f.schema, value.props[f.name], here)
              ELSE IF f.required
                     THEN <<Violation(here, "MissingRequired", "")>>
                     ELSE <<>>)
           \o EvaluateFields(fields, value, path, i + 1)

(***************************************************************************)
(* Compiler: one-time preparation, and the short-circuiting boolean check  *)
(***************************************************************************)
RECURSIVE Compile(_)
Compile(schema) ==
  CASE schema.type = "Object" ->
         LET names == DeclaredNames(schema)
             at(n) == CHOOSE i \in 1..Len(schema.fields) : schema.fields[i].name = n
         IN  [type     |-> "Object",
              required |-> {n \in names : schema.fields[at(n)].required},
              optional |-> {n \in names : ~schema.fields[at(n)].required},
              props    |-> [n \in names |-> Compile(schema.fields[at(n)].schema)],
              closed   |-> schema.strict]
    [] schema.type = "Array" ->
         [type |-> "Array", items |-> Compile(schema.elementSchema)]
    [] schema.type = "Union" ->
         IF \A i \in 1..Len(schema.alternatives) : schema.alternatives[i].type = "Literal"
           THEN [type |-> "Enum",
                 values |-> {schema.alternatives[i].value : i \in 1..Len(schema.alternatives)}]
           ELSE [type |-> "Union",
                 anyOf |-> [i \in 1..Len(schema.alternatives) |-> Compile(schema.alternatives[i])]]
    [] OTHER -> schema

RECURSIVE Check(_, _)
Check(code, value) ==
  CASE code.type = "String" ->
         /\ value.kind = "string"
         /\ ("minLength" \in DOMAIN code => Len(value.str) >= code.minLength)
         /\ ("maxLength" \in DOMAIN code => Len(value.str) <= code.maxLength)
         /\ ("format" \in DOMAIN code => FormatOk(code.format, value.str))
    [] code.type = "Number" ->
         /\ value.kind = "number"
         /\ ("minimum" \in DOMAIN code => value.num >= code.minimum)
         /\ ("maximum" \in DOMAIN code => value.num <= code.maximum)
    [] code.type = "Boolean" -> value.kind = "boolean"
    [] code.type = "Null"    -> value.kind = "null"
    [] code.type = "Literal" -> value = code.value
    [] code.type = "Enum"    -> value \in code.values
    [] code.type = "Array" ->
         /\ value.kind = "array"
         /\ \A i \in 1..Len(value.items) : Check(code.items, value.items[i])
    [] code.type = "Object" ->
         /\ value.kind = "object"
         /\ code.required \subseteq DOMAIN value.props
         /\ \A n \in DOMAIN code.props : Has(value, n) => Check(code.props[n], value.props[n])
         /\ (code.closed => (DOMAIN value.props) \subseteq (DOMAIN code.props))
    [] code.type = "Union" ->
         \E i \in 1..Len(code.anyOf) : Check(code.anyOf[i], value)

TypeCompiler_Compile(schema) == [schema |-> schema, code |-> Compile(schema)]

Validator_Check(V, value)  == Check(V.code, value)
Validator_Errors(V, value) == Evaluate(V.schema, value, <<>>)

(***************************************************************************)
(* typebox-example: the schemas it declares and the values it checks       *)
(***************************************************************************)
StringSchema  == Type_String
NumberSchema  == Type_Number
BooleanSchema == Type_Boolean
NullSchema    == Type_Null

\* the element schema mistaken for the other primitive
StringArraySchemaOfNumbers == Type_Array(Type_Number)

StringArraySchema == Type_Array(Type_String)
NumberArraySchema == Type_Array(Type_Number)

ExampleUserSchema ==
  Type_Object(<< <<"name", Type_String>>,
                 <<"age", Type_Number>>,
                 <<"email", Type_StringOpts([format |-> "email"])>>,
                 <<"isActive", Type_Boolean>>,
                 <<"tags", Type_Array(Type_String)>> >>)

\* the union with its last alternative left out
StatusSchemaWithoutPending ==
  Type_Union(<< Type_Literal(Str("active")),
                Type_Literal(Str("inactive")) >>)

StatusSchema ==
  Type_Union(<< Type_Literal(Str("active")),
                Type_Literal(Str("inactive")),
                Type_Literal(Str("pending")) >>)

\* age declared without Type.Optional
OptionalUserSchemaAgeRequired ==
  Type_Object(<< <<"name", Type_String>>,
                 <<"age", Type_Number>>,
                 <<"email", Type_Optional(Type_StringOpts([format |-> "email"]))>> >>)

OptionalUserSchema ==
  Type_Object(<< <<"name", Type_String>>,
                 <<"age", Type_Optional(Type_Number)>>,
                 <<"email", Type_Optional(Type_StringOpts([format |-> "email"]))>> >>)

BasicUserSchema ==
  Type_Object(<< <<"name", Type_String>>,
                 <<"age", Type_Number>>,
                 <<"email", Type_String>>,
                 <<"isActive", Type_Boolean>>,
                 <<"tags", Type_Array(Type_String)>> >>)

validUser ==
  Obj([name |-> Str("John Doe"), age |-> Num(30), email |-> Str("john@example.com"),
       isActive |-> Bool(TRUE), tags |-> Arr(<<Str("user"), Str("active")>>)])

invalidUser ==
  Obj([name |-> Str("John Doe"), age |-> Str("30"), email |-> Str("invalid-email"),
       isActive |-> Bool(TRUE), tags |-> Arr(<<Str("user"), Str("active")>>)])

\* schemas the design admits and the sources never declare
StrictUserSchema ==
  Type_ObjectOpts(<< <<"name", Type_String>>,
                     <<"age", Type_Optional(Type_Number)>> >>, TRUE)

ImpossibleRangeSchema == Type_NumberOpts([minimum |-> 10, maximum |-> 5])

LongEmailSchema == Type_StringOpts([minLength |-> 20, maxLength |-> 10, format |-> "email"])

(***************************************************************************)
(* validation-example: schema, validator, validateUser, createUser         *)
(***************************************************************************)
\* the name's lower bound off by one
UserSchemaShortNames ==
  Type_Object(<< <<"id", Type_String>>,
                 <<"name", Type_StringOpts([minLength |-> 1, maxLength |-> 50])>>,
                 <<"email", Type_String>>,
                 <<"age", Type_NumberOpts([minimum |-> 0, maximum |-> 120])>>,
                 <<"roles", Type_Array(Type_Union(<< Type_Literal(Str("admin")),
                                                     Type_Literal(Str("user")),
                                                     Type_Literal(Str("guest")) >>))>>,
                 <<"settings", Type_Object(<< <<"notifications", Type_Boolean>>,
                                              <<"theme", Type_Union(<< Type_Literal(Str("light")),
                                                                       Type_Literal(Str("dark")) >>)>> >>)>> >>)

UserSchema ==
  Type_Object(<< <<"id", Type_String>>,
                 <<"name", Type_StringOpts([minLength |-> 2, maxLength |-> 50])>>,
                 <<"email", Type_String>>,
                 <<"age", Type_NumberOpts([minimum |-> 0, maximum |-> 120])>>,
                 <<"roles", Type_Array(Type_Union(<< Type_Literal(Str("admin")),
                                                     Type_Literal(Str("user")),
                                                     Type_Literal(Str("guest")) >>))>>,
                 <<"settings", Type_Object(<< <<"notifications", Type_Boolean>>,
                                              <<"theme", Type_Union(<< Type_Literal(Str("light")),
                                                                       Type_Literal(Str("dark")) >>)>> >>)>> >>)

UserValidator == TypeCompiler_Compile(UserSchema)

\* the template with the path interpolation dropped
FormatErrorWithoutPath(error) == error.message

\* `${error.path}: ${error.message}`
FormatError(error) == JoinPath(error.path) \o ": " \o error.message

\* the branch condition inverted: details gathered for valid data only
validateUserInverted(d) ==
  LET isValid == Validator_Check(UserValidator, d)
  IN  IF isValid
        THEN LET found == Validator_Errors(UserValidator, d)
             IN  [isValid |-> FALSE,
                  errors  |-> [i \in 1..Len(found) |-> FormatError(found[i])]]
        ELSE [isValid |-> TRUE, errors |-> <<>>]

\* only the first error kept (Errors(data).First())
validateUserFirstOnly(d) ==
  LET isValid == Validator_Check(UserValidator, d)
  IN  IF ~isValid
        THEN LET found == Validator_Errors(UserValidator, d)
             IN  [isValid |-> FALSE,
                  errors  |-> [i \in 1..(IF found = <<>> THEN 0 ELSE 1) |-> FormatError(found[i])]]
        ELSE [isValid |-> TRUE, errors |-> <<>>]

\* the errors array hoisted to module level: every call appends to what the
\* previous call left there
validateUserLeaky(d) ==
  LET isValid == Validator_Check(UserValidator, d)
  IN  IF ~isValid
        THEN LET found == Validator_Errors(UserValidator, d)
             IN  [isValid |-> FALSE,
                  errors  |-> call.errors \o [i \in 1..Len(found) |-> FormatError(found[i])]]
        ELSE [isValid |-> TRUE, errors |-> <<>>]

\* a guard that lets anything that is no object through as valid
validateUserObjectsOnly(d) ==
  LET isValid == d.kind # "object" \/ Validator_Check(UserValidator, d)
  IN  IF ~isValid
        THEN LET found == Validator_Errors(UserValidator, d)
             IN  [isValid |-> FALSE,
                  errors  |-> [i \in 1..Len(found) |-> FormatError(found[i])]]
        ELSE [isValid |-> TRUE, errors |-> <<>>]

validateUser(d) ==
  LET isValid == Validator_Check(UserValidator, d)
  IN  IF ~isValid
        THEN LET found == Validator_Errors(UserValidator, d)
             IN  [isValid |-> FALSE,
                  errors  |-> [i \in 1..Len(found) |-> FormatError(found[i])]]
        ELSE [isValid |-> TRUE, errors |-> <<>>]

\* Array.prototype.join
RECURSIVE Join(_, _)
Join(strings, sep) ==
  IF strings = <<>> THEN ""
  ELSE IF Len(strings) = 1 THEN strings[1]
  ELSE strings[1] \o sep \o Join(Tail(strings), sep)

\* the error thrown without the validation lines
createUserBareMessage(userData) ==
  LET validation == validateUser(userData)
  IN  IF ~validation.isValid
        THEN [threw |-> TRUE, message |-> "Invalid user data", value |-> Null]
        ELSE [threw |-> FALSE, message |-> "", value |-> userData]

\* outcome of createUser: thrown Error(message) or the returned value
createUser(userData) ==
  LET validation == validateUser(userData)
  IN  IF ~validation.isValid
        THEN [threw |-> TRUE,
              message |-> "Invalid user data:\n" \o Join(validation.errors, "\n"),
              value |-> Null]
        ELSE [threw |-> FALSE, message |-> "", value |-> userData]

validUserData ==
  Obj([id |-> Str("123e4567-e89b-12d3-a456-426614174000"),
       name |-> Str("John Doe"),
       email |-> Str("john@example.com"),
       age |-> Num(30),
       roles |-> Arr(<<Str("user")>>),
       settings |-> Obj([notifications |-> Bool(TRUE), theme |-> Str("dark")])])

invalidUserData ==
  Obj([id |-> Num(123),
       name |-> Str("J"),
       email |-> Str("not-an-email"),
       age |-> Num(150),
       roles |-> Arr(<<Str("superuser")>>),
       settings |-> Obj([notifications |-> Str("yes"), theme |-> Str("blue")])])

missingFieldsData == Obj([id |-> Str("123"), name |-> Str("John")])

(***************************************************************************)
(* The suites as a state machine                                           *)
(*   suite : which test module is running                                  *)
(*   data  : the value the test has built                                  *)
(*   edits : how many spread-style modifications produced it               *)
(*   call  : the last engine / wrapper call made on data, and what it gave *)
(*   held  : a call one caller keeps while others go on using the validator*)
(***************************************************************************)
Schemas ==
  [User         |-> UserSchema,
   String       |-> StringSchema,
   Number       |-> NumberSchema,
   Boolean      |-> BooleanSchema,
   Null         |-> NullSchema,
   StringArray  |-> StringArraySchema,
   NumberArray  |-> NumberArraySchema,
   ExampleUser  |-> ExampleUserSchema,
   Status       |-> StatusSchema,
   OptionalUser |-> OptionalUserSchema,
   BasicUser    |-> BasicUserSchema,
   StrictUser   |-> StrictUserSchema,
   ImpossibleRange |-> ImpossibleRangeSchema,
   LongEmail    |-> LongEmailSchema]

ExampleSchemaNames == (DOMAIN Schemas) \ {"User"}

NoCall ==
  [op |-> "none", schema |-> "none", ok |-> FALSE, violations |-> <<>>,
   errors |-> <<>>, threw |-> FALSE, message |-> "", value |-> Null]

CheckCall(name, V, d) ==
  [NoCall EXCEPT !.op = "Check", !.schema = name, !.ok = Validator_Check(V, d)]

ErrorsCall(name, V, d) ==
  LET found == Validator_Errors(V, d)
  IN  [NoCall EXCEPT !.op = "Errors", !.schema = name,
                     !.ok = (found = <<>>), !.violations = found]

ValidateUserCall(d) ==
  LET r == validateUser(d)
  IN  [NoCall EXCEPT !.op = "validateUser", !.schema = "User",
                     !.ok = r.isValid, !.errors = r.errors]

CreateUserCall(d) ==
  LET r == createUser(d)
  IN  [NoCall EXCEPT !.op = "createUser", !.schema = "User", !.ok = ~r.threw,
                     !.threw = r.threw, !.message = r.message, !.value = r.value]

NotHeld == [op |-> "none", arg |-> Null, result |-> NoCall]

\* values that are no user object at all
MalformedData == {Null, Num(42), Str("user"), Arr(<<>>), Bool(TRUE)}

Fixtures == {validUserData, invalidUserData, missingFieldsData} \cup MalformedData

LongName == "Bartholomew Maximilian Fitzgerald-Montgomery the 3rd"

\* { ...validUserData, key: value } as the tests write it
TopEdits ==
  { <<"id", Num(123)>>,
    <<"name", Str("J")>>, <<"name", Str(LongName)>>, <<"name", Num(7)>>,
    <<"age", Num(150)>>, <<"age", Num(-1)>>, <<"age", Str("30")>>,
    <<"roles", Arr(<<>>)>>, <<"roles", Arr(<<Str("superuser")>>)>>, <<"roles", Str("user")>>,
    <<"settings", Num(5)>>,
    <<"nickname", Str("JD")>> }

SettingsEdits ==
  { <<"notifications", Str("yes")>>, <<"theme", Str("light")>>, <<"theme", Str("blue")>> }

PushedRoles == {"admin", "superuser"}

OmittedFields == {"email", "age", "settings"}

Init ==
  /\ suite \in {"validation-example", "typebox-example"}
  /\ data = IF suite = "validation-example" THEN validUserData ELSE validUser
  /\ edits = 0
  /\ call = NoCall
  /\ held = NotHeld

CanEdit ==
  /\ suite = "validation-example"
  /\ edits < MaxEdits
  /\ data.kind = "object"
  /\ (edits > 0 \/ data \in {validUserData, invalidUserData})

Edited(d) ==
  /\ data' = d
  /\ edits' = edits + 1
  /\ call' = NoCall
  /\ UNCHANGED <<suite, held>>

UseFixture(f) ==
  /\ suite = "validation-example"
  /\ data' = f
  /\ edits' = 0
  /\ call' = NoCall
  /\ UNCHANGED <<suite, held>>

Spread(key, v) ==
  /\ CanEdit
  /\ Edited(With(data, key, v))

SpreadSettings(key, v) ==
  /\ CanEdit
  /\ Has(data, "settings")
  /\ data.props.settings.kind = "object"
  /\ Edited(With(data, "settings", With(data.props.settings, key, v)))

PushRole(r) ==
  /\ CanEdit
  /\ Has(data, "roles")
  /\ data.props.roles.kind = "array"
  /\ Edited(With(data, "roles", Arr(Append(data.props.roles.items, Str(r)))))

Omit(key) ==
  /\ CanEdit
  /\ Has(data, key)
  /\ Edited(Without(data, key))

Called(c) ==
  /\ call' = c
  /\ UNCHANGED <<suite, data, edits, held>>

CallCheck ==
  /\ suite = "validation-example"
  /\ Called(CheckCall("User", UserValidator, data))

CallErrors ==
  /\ suite = "validation-example"
  /\ Called(ErrorsCall("User", UserValidator, data))

CallValidateUser ==
  /\ suite = "validation-example"
  /\ Called(ValidateUserCall(data))

CallCreateUser ==
  /\ suite = "validation-example"
  /\ Called(CreateUserCall(data))

\* one caller keeps what its call on a fixture returned
Hold ==
  /\ suite = "validation-example"
  /\ call.op # "none"
  /\ data \in {validUserData, invalidUserData}
  /\ held' = [op |-> call.op, arg |-> data, result |-> call]
  /\ UNCHANGED <<suite, data, edits, call>>

ExampleInputs ==
  { Str("hello"), Str(""), Str("active"), Str("inactive"), Str("pending"), Str("blue"),
    Str("john@example.com"), Str("jane.doe+tag@example.org"), Str("not-an-email"),
    Num(42), Num(7), Num(3), Num(12), Bool(TRUE), Null,
    Arr(<<>>), Arr(<<Str("a"), Str("b")>>), Arr(<<Str("a"), Num(1)>>),
    Arr(<<Num(1), Str("a"), Bool(TRUE)>>), Arr(<<Num(1), Num(2)>>),
    Obj(<<>>), validUser, invalidUser,
    Obj([name |-> Str("John Doe")]),
    Obj([name |-> Str("John Doe"), age |-> Num(30)]),
    Obj([name |-> Str("John Doe"), age |-> Str("30")]),
    Obj([name |-> Str("John Doe"), email |-> Str("invalid-email")]),
    Obj([name |-> Str("John Doe"), email |-> Str("john@example.com"), age |-> Num(30)]),
    Obj([age |-> Num(30)]),
    Obj([name |-> Str("John Doe"), nickname |-> Str("JD")]),
    Obj([name |-> Num(1), nickname |-> Str("JD"), age |-> Null]) }

CompileAndCheck(name, v) ==
  /\ suite = "typebox-example"
  /\ data' = v
  /\ call' = CheckCall(name, TypeCompiler_Compile(Schemas[name]), v)
  /\ UNCHANGED <<suite, edits, held>>

CompileAndErrors(name, v) ==
  /\ suite = "typebox-example"
  /\ data' = v
  /\ call' = ErrorsCall(name, TypeCompiler_Compile(Schemas[name]), v)
  /\ UNCHANGED <<suite, edits, held>>

Next ==
  \/ \E f \in Fixtures : UseFixture(f)
  \/ \E e \in TopEdits : Spread(e[1], e[2])
  \/ \E e \in SettingsEdits : SpreadSettings(e[1], e[2])
  \/ \E r \in PushedRoles : PushRole(r)
  \/ \E k \in OmittedFields : Omit(k)
  \/ CallCheck
  \/ CallErrors
  \/ CallValidateUser
  \/ CallCreateUser
  \/ Hold
  \/ \E n \in ExampleSchemaNames, v \in ExampleInputs : CompileAndCheck(n, v)
  \/ \E n \in ExampleSchemaNames, v \in ExampleInputs : CompileAndErrors(n, v)

Spec == Init /\ [][Next]_vars

(***************************************************************************)
(* Properties                                                              *)
(***************************************************************************)
Paths(violations) == [i \in 1..Len(violations) |-> violations[i].path]
Kinds(violations) == [i \in 1..Len(violations) |-> violations[i].kind]
Messages(violations) == [i \in 1..Len(violations) |-> violations[i].message]
AtPath(violations, path) == SelectSeq(violations, LAMBDA v : v.path = path)
Under(violations, seg) == SelectSeq(violations, LAMBDA v : v.path # <<>> /\ v.path[1] = seg)
Range(xs) == {xs[i] : i \in 1..Len(xs)}
Count(strings, s) == Cardinality({i \in 1..Len(strings) : strings[i] = s})

RECURSIVE Flatten(_)
Flatten(seqs) == IF seqs = <<>> THEN <<>> ELSE Head(seqs) \o Flatten(Tail(seqs))

\* a user object with every declared field present, roles a list, settings a full object
WellShaped(d) ==
  /\ d.kind = "object"
  /\ {"id", "name", "email", "age", "roles", "settings"} \subseteq DOMAIN d.props
  /\ d.props.roles.kind = "array"
  /\ d.props.settings.kind = "object"
  /\ {"notifications", "theme"} \subseteq DOMAIN d.props.settings.props

\* what the User shape demands of each leaf, stated directly
BadId(d)    == d.props.id.kind # "string"
BadName(d)  == LET v == d.props.name
               IN  v.kind # "string" \/ Len(v.str) < 2 \/ Len(v.str) > 50
BadEmail(d) == d.props.email.kind # "string"
BadAge(d)   == LET v == d.props.age
               IN  v.kind # "number" \/ v.num < 0 \/ v.num > 120
BadRole(v)  == v \notin {Str("admin"), Str("user"), Str("guest")}
BadNotifications(d) == d.props.settings.props.notifications.kind # "boolean"
BadTheme(d) == d.props.settings.props.theme \notin {Str("light"), Str("dark")}

BadRolePaths(d) ==
  LET items == d.props.roles.items
  IN  Flatten([i \in 1..Len(items) |->
                 IF BadRole(items[i]) THEN <<"/roles/" \o ToString(i - 1)>> ELSE <<>>])

OffendingPaths(d) ==
     (IF BadId(d) THEN <<"/id">> ELSE <<>>)
  \o (IF BadName(d) THEN <<"/name">> ELSE <<>>)
  \o (IF BadEmail(d) THEN <<"/email">> ELSE <<>>)
  \o (IF BadAge(d) THEN <<"/age">> ELSE <<>>)
  \o BadRolePaths(d)
  \o (IF BadNotifications(d) THEN <<"/settings/notifications">> ELSE <<>>)
  \o (IF BadTheme(d) THEN <<"/settings/theme">> ELSE <<>>)

RenderedPaths(violations) == [i \in 1..Len(violations) |-> JoinPath(violations[i].path)]

----------------------------------------------------------------------------
\* C1: check(v) is true exactly when errors(v) is empty, for every compiled
\* validator; validateUser returns isValid with no errors, or not isValid with
\* at least one error, and no other combination.
C1_Consistency ==
  /\ call.op = "Check" =>
       (call.ok <=> (Evaluate(Schemas[call.schema], data, <<>>) = <<>>))
  /\ call.op = "Errors" =>
       ((call.violations = <<>>) <=> Check(Compile(Schemas[call.schema]), data))
  /\ call.op = "validateUser" =>
       /\ call.ok <=> (call.errors = <<>>)
       /\ call.ok <=> (Evaluate(UserSchema, data, <<>>) = <<>>)

C1_Witness ==
  /\ call.op = "validateUser"
  /\ ~call.ok
  /\ Len(call.errors) >= 2
  /\ edits > 0

----------------------------------------------------------------------------
\* C2: errors never stops at the first violation: on a user object whose
\* leaves (fields, nested fields, list elements) offend independently there
\* is exactly one violation per offending leaf, at that leaf's path, depth
\* first in declaration order; validateUser reports as many lines; the
\* all-invalid user gives /id /name /age /roles/0 /settings/notifications
\* /settings/theme.
C2_FullEnumeration ==
  /\ (call.op = "Errors" /\ call.schema = "User" /\ WellShaped(data)) =>
       RenderedPaths(call.violations) = OffendingPaths(data)
  /\ (call.op = "validateUser" /\ WellShaped(data)) =>
       Len(call.errors) = Len(OffendingPaths(data))
  /\ (call.op = "Errors" /\ call.schema = "User" /\ data = invalidUserData) =>
       RenderedPaths(call.violations) =
         <<"/id", "/name", "/age", "/roles/0", "/settings/notifications", "/settings/theme">>

C2_Witness ==
  /\ call.op = "validateUser"
  /\ WellShaped(data)
  /\ data # invalidUserData
  /\ Len(call.errors) >= 3

----------------------------------------------------------------------------
\* the sub-value a path leads to, if the path leads anywhere
RECURSIVE Resolves(_, _)
Resolves(value, path) ==
  IF path = <<>> THEN TRUE
  ELSE LET seg == Head(path)
       IN  IF "field" \in DOMAIN seg
             THEN /\ value.kind = "object"
                  /\ Has(value, seg.field)
                  /\ Resolves(value.props[seg.field], Tail(path))
             ELSE /\ value.kind = "array"
                  /\ seg.index + 1 \in 1..Len(value.items)
                  /\ Resolves(value.items[seg.index + 1], Tail(path))

RECURSIVE ValueAt(_, _)
ValueAt(value, path) ==
  IF path = <<>> THEN value
  ELSE LET seg == Head(path)
       IN  IF "field" \in DOMAIN seg
             THEN ValueAt(value.props[seg.field], Tail(path))
             ELSE ValueAt(value.items[seg.index + 1], Tail(path))

PrimitiveKind ==
  [String |-> "string", Number |-> "number", Boolean |-> "boolean", Null |-> "null",
   ImpossibleRange |-> "number", LongEmail |-> "string"]

\* the primitive leaves of the User shape: field, rendered path, kind
UserPrimitives ==
  { <<"id", "/id", "string">>, <<"name", "/name", "string">>,
    <<"email", "/email", "string">>, <<"age", "/age", "number">> }

RefinementLines ==
  { "/name: Expected string length greater or equal to 2",
    "/name: Expected string length less or equal to 50",
    "/age: Expected number to be greater or equal to 0",
    "/age: Expected number to be less or equal to 120" }

\* C3: a violation's path leads from the root of the checked value to the
\* offending sub-value, the formatted error is "<joined path>: <message>" with
\* "/" before each segment, and a value of the wrong runtime kind at a
\* primitive node gives exactly one TypeMismatch there, "Expected <kind>",
\* and no refinement violation for that node.
C3_PathsAndTypeMismatch ==
  /\ call.op = "Errors" =>
       \A i \in 1..Len(call.violations) :
          LET v == call.violations[i]
          IN  IF v.kind \in {"MissingRequired"}
                THEN /\ Resolves(data, SubSeq(v.path, 1, Len(v.path) - 1))
                     /\ ~Resolves(data, v.path)
                ELSE /\ Resolves(data, v.path)
                     /\ v.kind = "TypeMismatch" =>
                          /\ "Expected " \o ValueAt(data, v.path).kind # v.message
                          /\ Len(AtPath(call.violations, v.path)) = 1
  /\ (call.op = "Errors" /\ call.schema \in DOMAIN PrimitiveKind
        /\ data.kind # PrimitiveKind[call.schema]) =>
       call.violations =
         << [path |-> <<>>, kind |-> "TypeMismatch",
             message |-> "Expected " \o PrimitiveKind[call.schema]] >>
  /\ (call.op = "validateUser" /\ WellShaped(data)) =>
       /\ \A p \in UserPrimitives :
            data.props[p[1]].kind # p[3] =>
              /\ Count(call.errors, p[2] \o ": Expected " \o p[3]) = 1
              /\ p[1] = "name" =>
                   /\ Count(call.errors, "/name: Expected string length greater or equal to 2") = 0
                   /\ Count(call.errors, "/name: Expected string length less or equal to 50") = 0
              /\ p[1] = "age" =>
                   /\ Count(call.errors, "/age: Expected number to be greater or equal to 0") = 0
                   /\ Count(call.errors, "/age: Expected number to be less or equal to 120") = 0
       /\ BadNotifications(data) <=>
            Count(call.errors, "/settings/notifications: Expected boolean") = 1

C3_Witness ==
  /\ call.op = "validateUser"
  /\ WellShaped(data)
  /\ data.props.id.kind = "number"
  /\ data.props.settings.props.notifications.kind = "string"
  /\ Count(call.errors, "/id: Expected string") = 1
  /\ Count(call.errors, "/settings/notifications: Expected boolean") = 1

----------------------------------------------------------------------------
UnionFailure(path) ==
  [path |-> path, kind |-> "NoAlternativeMatched", message |-> "Expected union value"]

\* C4: a union passes with no violation when the value satisfies any one
\* alternative, whatever its position; when it satisfies none, errors gives
\* exactly one NoAlternativeMatched, "Expected union value", at the union's
\* own path and nothing per alternative.
C4_UnionAggregate ==
  /\ call.schema = "Status" =>
       LET passes == data \in {Str("active"), Str("inactive"), Str("pending")}
       IN  /\ call.op = "Check" => (call.ok <=> passes)
           /\ call.op = "Errors" =>
                call.violations = IF passes THEN <<>> ELSE <<UnionFailure(<<>>)>>
  /\ (call.op = "Errors" /\ call.schema = "User" /\ WellShaped(data)) =>
       /\ AtPath(call.violations, <<Field("settings"), Field("theme")>>) =
            IF BadTheme(data)
              THEN <<UnionFailure(<<Field("settings"), Field("theme")>>)>> ELSE <<>>
       /\ \A i \in 1..Len(call.violations) : call.violations[i].kind # "LiteralMismatch"
  /\ (call.op = "validateUser" /\ WellShaped(data)) =>
       Count(call.errors, "/settings/theme: Expected union value")
         = IF BadTheme(data) THEN 1 ELSE 0

C4_Witness ==
  /\ call.op = "Errors"
  /\ call.schema = "Status"
  /\ data = Str("blue")
  /\ call.violations = <<UnionFailure(<<>>)>>

----------------------------------------------------------------------------
\* one TypeMismatch per element of the wrong kind, in index order
ElementMismatches(items, kind) ==
  Flatten([i \in 1..Len(items) |->
             IF items[i].kind # kind
               THEN << [path |-> <<Index(i - 1)>>, kind |-> "TypeMismatch",
                        message |-> "Expected " \o kind] >>
               ELSE <<>>])

\* C5: every element of a list is evaluated against the element schema: the
\* violations are the elements' violations in index order with the index
\* appended to the path; ["superuser"] as roles gives the single line
\* "/roles/0: Expected union value"; a list of conforming elements, the empty
\* list included, gives none.
C5_ArrayElements ==
  /\ (call.op = "Errors" /\ call.schema = "StringArray" /\ data.kind = "array") =>
       call.violations = ElementMismatches(data.items, "string")
  /\ (call.op = "Errors" /\ call.schema = "NumberArray" /\ data.kind = "array") =>
       call.violations = ElementMismatches(data.items, "number")
  /\ (call.op = "Errors" /\ call.schema = "User" /\ WellShaped(data)) =>
       Under(call.violations, Field("roles")) =
         LET items == data.props.roles.items
         IN  Flatten([i \in 1..Len(items) |->
                        IF BadRole(items[i])
                          THEN <<UnionFailure(<<Field("roles"), Index(i - 1)>>)>>
                          ELSE <<>>])
  /\ (call.op = "validateUser"
        /\ data = With(validUserData, "roles", Arr(<<Str("superuser")>>))) =>
       call.errors = <<"/roles/0: Expected union value">>

C5_Witness ==
  /\ call.op = "Errors"
  /\ call.schema = "StringArray"
  /\ data = Arr(<<Num(1), Str("a"), Bool(TRUE)>>)
  /\ Paths(call.violations) = <<<<Index(0)>>, <<Index(2)>>>>

----------------------------------------------------------------------------
\* C6: a primitive of the right kind gets one violation per violated bound,
\* its message naming the bound, and none for a satisfied bound: a name
\* shorter than 2 gives "Expected string length greater or equal to 2", an
\* age above 120 gives "Expected number to be less or equal to 120"; minimum
\* is applied before maximum and the length bounds before the format.
C6_Refinements ==
  /\ (call.op = "validateUser" /\ WellShaped(data) /\ data.props.name.kind = "string") =>
       LET n == Len(data.props.name.str)
       IN  /\ Count(call.errors, "/name: Expected string length greater or equal to 2")
                = IF n < 2 THEN 1 ELSE 0
           /\ Count(call.errors, "/name: Expected string length less or equal to 50")
                = IF n > 50 THEN 1 ELSE 0
  /\ (call.op = "validateUser" /\ WellShaped(data) /\ data.props.age.kind = "number") =>
       LET n == data.props.age.num
       IN  /\ Count(call.errors, "/age: Expected number to be greater or equal to 0")
                = IF n < 0 THEN 1 ELSE 0
           /\ Count(call.errors, "/age: Expected number to be less or equal to 120")
                = IF n > 120 THEN 1 ELSE 0
  /\ (call.op = "Errors" /\ call.schema = "User" /\ WellShaped(data)) =>
       /\ Kinds(AtPath(call.violations, <<Field("name")>>)) =
            LET v == data.props.name
            IN  IF v.kind # "string" THEN <<"TypeMismatch">>
                ELSE IF Len(v.str) < 2 THEN <<"LengthTooShort">>
                ELSE IF Len(v.str) > 50 THEN <<"LengthTooLong">> ELSE <<>>
       /\ Kinds(AtPath(call.violations, <<Field("age")>>)) =
            LET v == data.props.age
            IN  IF v.kind # "number" THEN <<"TypeMismatch">>
                ELSE IF v.num < 0 THEN <<"BelowMinimum">>
                ELSE IF v.num > 120 THEN <<"AboveMaximum">> ELSE <<>>
  /\ (call.op = "Errors" /\ call.schema = "ImpossibleRange" /\ data.kind = "number") =>
       /\ Kinds(call.violations) =
               (IF data.num < 10 THEN <<"BelowMinimum">> ELSE <<>>)
            \o (IF data.num > 5 THEN <<"AboveMaximum">> ELSE <<>>)
       /\ Messages(call.violations) =
               (IF data.num < 10
                  THEN <<"Expected number to be greater or equal to 10">> ELSE <<>>)
            \o (IF data.num > 5
                  THEN <<"Expected number to be less or equal to 5">> ELSE <<>>)
  /\ (call.op = "Errors" /\ call.schema = "LongEmail" /\ data.kind = "string") =>
       Kinds(call.violations) =
            (IF Len(data.str) < 20 THEN <<"LengthTooShort">> ELSE <<>>)
         \o (IF Len(data.str) > 10 THEN <<"LengthTooLong">> ELSE <<>>)
         \o (IF data.str \notin EmailStrings THEN <<"FormatInvalid">> ELSE <<>>)

C6_Witness ==
  /\ call.op = "validateUser"
  /\ WellShaped(data)
  /\ data.props.name = Str("J")
  /\ data.props.age = Num(150)
  /\ call.errors = << "/name: Expected string length greater or equal to 2",
                      "/age: Expected number to be less or equal to 120" >>

----------------------------------------------------------------------------
\* the fields each object schema declares, stated directly
Declared ==
  [User         |-> [required |-> {"id", "name", "email", "age", "roles", "settings"},
                     optional |-> {}],
   OptionalUser |-> [required |-> {"name"}, optional |-> {"age", "email"}],
   BasicUser    |-> [required |-> {"name", "age", "email", "isActive", "tags"},
                     optional |-> {}],
   ExampleUser  |-> [required |-> {"name", "age", "email", "isActive", "tags"},
                     optional |-> {}],
   StrictUser   |-> [required |-> {"name"}, optional |-> {"age"}]]

StrictSchemas == {"StrictUser"}

\* C7: on a key-value mapping, every absent required field gives a
\* MissingRequired violation at the field's path and check is false; an absent
\* optional field gives none; a present field, required or optional, is
\* evaluated against its schema (an optional age holding "30" gives one
\* TypeMismatch at /age); undeclared keys give nothing unless the schema is
\* strict.
C7_ObjectFields ==
  (call.schema \in DOMAIN Declared /\ data.kind = "object") =>
    LET decl == Declared[call.schema]
        missing == decl.required \ DOMAIN data.props
    IN  /\ (call.op \in {"Check", "Errors"} /\ missing # {}) => ~call.ok
        /\ call.op = "Errors" =>
             /\ \A f \in missing :
                  "MissingRequired" \in
                    {v.kind : v \in Range(AtPath(call.violations, <<Field(f)>>))}
             /\ \A f \in decl.optional \ DOMAIN data.props :
                  Under(call.violations, Field(f)) = <<>>
             /\ \A k \in (DOMAIN data.props) \ (decl.required \cup decl.optional) :
                  Kinds(Under(call.violations, Field(k))) =
                    IF call.schema \in StrictSchemas THEN <<"UnexpectedProperty">> ELSE <<>>
             /\ (call.schema \in {"OptionalUser", "StrictUser"} /\ Has(data, "age")) =>
                  AtPath(call.violations, <<Field("age")>>) =
                    IF data.props.age.kind # "number"
                      THEN << [path |-> <<Field("age")>>, kind |-> "TypeMismatch",
                               message |-> "Expected number"] >>
                      ELSE <<>>
             /\ (call.schema = "OptionalUser" /\ Has(data, "email")) =>
                  Kinds(AtPath(call.violations, <<Field("email")>>)) =
                    IF data.props.email.kind # "string" THEN <<"TypeMismatch">>
                    ELSE IF data.props.email.str \notin EmailStrings THEN <<"FormatInvalid">>
                    ELSE <<>>
             /\ Has(data, "name") =>
                  Kinds(AtPath(call.violations, <<Field("name")>>)) =
                    IF data.props.name.kind # "string" THEN <<"TypeMismatch">>
                    ELSE IF call.schema = "User" /\ Len(data.props.name.str) < 2
                      THEN <<"LengthTooShort">>
                    ELSE IF call.schema = "User" /\ Len(data.props.name.str) > 50
                      THEN <<"LengthTooLong">>
                    ELSE <<>>
        /\ (call.op = "validateUser" /\ missing # {}) => ~call.ok
        /\ (call.op = "createUser" /\ missing # {}) => call.threw

C7_Witness ==
  /\ call.op = "Errors"
  /\ call.schema = "OptionalUser"
  /\ data = Obj([name |-> Str("John Doe")])
  /\ call.violations = <<>>

----------------------------------------------------------------------------
RECURSIVE Lines(_)
Lines(strings) ==
  IF strings = <<>> THEN "" ELSE "\n" \o Head(strings) \o Lines(Tail(strings))

\* C8: createUser throws exactly when validateUser says the data is not
\* valid, the message being "Invalid user data:" followed by every formatted
\* error on its own line; otherwise it returns the value it was given,
\* unmodified; it never both returns and throws.
C8_CreateUser ==
  call.op = "createUser" =>
    LET validation == validateUser(data)
    IN  /\ call.threw <=> ~validation.isValid
        /\ call.threw =>
             /\ call.message = "Invalid user data:" \o Lines(validation.errors)
             /\ validation.errors # <<>>
             /\ call.value = Null
        /\ ~call.threw => (call.value = data /\ call.message = "")
        /\ data = invalidUserData =>
             call.message =
               "Invalid user data:\n/id: Expected string\n/name: Expected string length greater or equal to 2\n/age: Expected number to be less or equal to 120\n/roles/0: Expected union value\n/settings/notifications: Expected boolean\n/settings/theme: Expected union value"

C8_Witness ==
  /\ call.op = "createUser"
  /\ call.threw
  /\ edits = MaxEdits
  /\ Len(validateUser(data).errors) >= 2

----------------------------------------------------------------------------
IsCallStep == call' # call /\ call'.op # "none" /\ suite = "validation-example"

----------------------------------------------------------------------------
\* C10: check and errors raise for no input: a value that is no key-value
\* mapping against an object node, or no list against a list node, is a
\* TypeMismatch at that node's path and check is false; validateUser returns
\* a result for every input and only createUser throws.
C10_NeverRaises ==
  /\ (call.schema \in DOMAIN Declared /\ data.kind # "object") =>
       /\ call.op = "Check" => ~call.ok
       /\ call.op = "Errors" =>
            call.violations = << [path |-> <<>>, kind |-> "TypeMismatch",
                                  message |-> "Expected object"] >>
       /\ call.op = "validateUser" =>
            (~call.ok /\ call.errors = <<": Expected object">>)
  /\ (call.schema \in {"StringArray", "NumberArray"} /\ data.kind # "array") =>
       /\ call.op = "Check" => ~call.ok
       /\ call.op = "Errors" =>
            call.violations = << [path |-> <<>>, kind |-> "TypeMismatch",
                                  message |-> "Expected array"] >>
  /\ (call.op = "Errors" /\ call.schema = "User" /\ data.kind = "object") =>
       /\ (Has(data, "settings") /\ data.props.settings.kind # "object") =>
            Under(call.violations, Field("settings")) =
              << [path |-> <<Field("settings")>>, kind |-> "TypeMismatch",
                  message |-> "Expected object"] >>
       /\ (Has(data, "roles") /\ data.props.roles.kind # "array") =>
            Under(call.violations, Field("roles")) =
              << [path |-> <<Field("roles")>>, kind |-> "TypeMismatch",
                  message |-> "Expected array"] >>
  /\ call.threw => (call.op = "createUser" /\ ~validateUser(data).isValid)
  /\ call.op = "validateUser" => (call.ok \/ call.errors # <<>>)

C10_Witness ==
  /\ call.op = "validateUser"
  /\ data = Null
  /\ ~call.ok
  /\ call.errors = <<": Expected object">>

====
